---- MODULE Spec2Model ----
(***************************************************************************)
(* Model of src/app.py: the HKMA data extraction tool.                     *)
(*                                                                         *)
(* The Streamlit script is re-run from top to bottom on every user         *)
(* interaction; st.session_state carries df_all, current_source,           *)
(* plot_start, plot_end and slider_range across runs.  One action of the   *)
(* model is one user interaction followed by the script run it triggers,   *)
(* except for the paging loop of fetch_hkma_data, which is modelled one    *)
(* HTTP request per action (pc = "paging" while the loop runs).            *)
(*                                                                         *)
(* Dates are small integers 0..MaxDate.  A raw API value is a date or      *)
(* Unparseable; NaN is the cell pandas creates for a key a record lacks;   *)
(* NaT is what pd.to_datetime(errors='coerce') makes of both.              *)
(*                                                                         *)
(* Text (labels, units) is a sequence of characters; the CJK keywords of   *)
(* the classifier are written one pinyin syllable per character:           *)
(*   nian lv = annual rate, li lv = interest rate, shou yi lv = yield,     *)
(*   hui lv = exchange rate, zhi shu = index.                               *)
(*                                                                         *)
(* A widget created with key=k reads and writes st.session_state[k]; its    *)
(* value= argument is used only while k is not in session state, and its   *)
(* min_value/max_value bound what the user can enter, not what the script  *)
(* assigns to the key.                                                     *)
(*                                                                         *)
(* st.cache_data (line 79) memoises fetch_hkma_data on its arguments: a    *)
(* cached result is a result an earlier call returned, and every such      *)
(* result is also produced here by a fresh call receiving the same pages,  *)
(* so the memo table is not kept as state.                                 *)
(***************************************************************************)
EXTENDS Integers, Sequences, FiniteSets

VARIABLES
    df_all,                 \* st.session_state['df_all']: <<>> is None, <<df>> a DataFrame
    current_source,         \* st.session_state['current_source']
    plot_start,             \* st.session_state.plot_start (Absent when the key is not set)
    plot_end,               \* st.session_state.plot_end
    slider_range,           \* st.session_state.slider_range (<<>> when the key is not set)
    selected_source_name,   \* sidebar selectbox value of the running fetch
    fetch_start,            \* sidebar date input
    fetch_end,              \* sidebar date input
    pc,                     \* "idle" | "paging" (inside the while loop of fetch_hkma_data)
    offset,                 \* local of fetch_hkma_data
    all_records,            \* local of fetch_hkma_data
    requests,               \* history: the requests.get calls of the last fetch, in order,
                            \* each [offset, got]: got is the number of records of the
                            \* page, or RequestFailed
    kept,                   \* history: the Dataset loaded when the last fetch attempt
                            \* started, or the one that attempt installed
    stop,                   \* how the loop of the last fetch ended: "" | "empty" | "error"
    message,                \* what the fetch handler showed: "" | "success" | "error" | "warning"
    VARIABLE_META,          \* module global loaded from variable_config.csv
    selected_vars,          \* multiselect value
    primary_vars,           \* left axis
    secondary_vars          \* right axis

vars == <<df_all, current_source, plot_start, plot_end, slider_range,
          selected_source_name, fetch_start, fetch_end, pc, offset, all_records,
          requests, kept, stop, message, VARIABLE_META, selected_vars, primary_vars,
          secondary_vars>>

sessionVars == <<df_all, current_source, plot_start, plot_end, slider_range>>
fetchVars == <<selected_source_name, fetch_start, fetch_end, pc, offset, all_records,
               requests, kept, stop, message>>
chartVars == <<VARIABLE_META, selected_vars, primary_vars, secondary_vars>>

(***************************************************************************)
(* Bounds of the model.                                                    *)
(***************************************************************************)
MaxDate == 2
MaxPages == 2
MaxRecords == 2
MaxVars == 2

(***************************************************************************)
(* Values.                                                                 *)
(***************************************************************************)
NaT == -1
Unparseable == -2
NaN == -3
Absent == -4
RequestFailed == -5
NoCol == ""

Dates == 0..MaxDate
RawValues == Dates \cup {Unparseable}

pagesize == 1000

API_CONFIG ==
    [s \in {"HIBOR", "RMB Deposit Rates", "Monetary Statistics"} |->
        IF s = "HIBOR"
        THEN [segment |-> "hibor.fixing", date_col |-> "end_of_day"]
        ELSE [segment |-> "", date_col |-> "end_of_month"]]

possible_date_cols == <<"end_of_day", "end_of_month", "date", "observation_date">>

handler_date_cols == <<"end_of_day", "end_of_month", "date">>

(***************************************************************************)
(* pandas helpers.                                                         *)
(***************************************************************************)
EmptyDataFrame == [columns |-> {}, rows |-> <<>>]

DataFrame(records) ==
    LET cols == UNION {DOMAIN records[i] : i \in 1..Len(records)}
    IN  [columns |-> cols,
         rows |-> [i \in 1..Len(records) |->
                     [c \in cols |-> IF c \in DOMAIN records[i]
                                     THEN records[i][c] ELSE NaN]]]

IsEmpty(df) == df.columns = {} \/ Len(df.rows) = 0

to_datetime(v) == IF v >= 0 THEN v ELSE NaT

RECURSIVE FirstPresent(_, _, _)
FirstPresent(cands, i, columns) ==
    IF i > Len(cands) THEN NoCol
    ELSE IF cands[i] \in columns THEN cands[i]
    ELSE FirstPresent(cands, i + 1, columns)

RECURSIVE InsertSorted(_, _, _)
InsertSorted(sorted, row, col) ==
    IF sorted = <<>> THEN <<row>>
    ELSE IF Head(sorted)[col] <= row[col]
         THEN <<Head(sorted)>> \o InsertSorted(Tail(sorted), row, col)
         ELSE <<row>> \o sorted

RECURSIVE SortRows(_, _)
SortRows(rows, col) ==
    IF rows = <<>> THEN <<>>
    ELSE InsertSorted(SortRows(SubSeq(rows, 1, Len(rows) - 1), col), rows[Len(rows)], col)

Coerce(df, col) ==
    [df EXCEPT !.rows = [i \in 1..Len(df.rows) |->
                            [df.rows[i] EXCEPT ![col] = to_datetime(df.rows[i][col])]]]

DropNa(df, col) ==
    LET NotNull(r) == r[col] # NaT
    IN  [df EXCEPT !.rows = SelectSeq(df.rows, NotNull)]

\* Mutant: the upper end of the range is not applied.
MaskRange_LowerOnly(df, col, target_start, target_end) ==
    LET InRange(r) == r[col] >= target_start
    IN  [df EXCEPT !.rows = SelectSeq(df.rows, InRange)]

MaskRange(df, col, target_start, target_end) ==
    LET InRange(r) == r[col] >= target_start /\ r[col] <= target_end
    IN  [df EXCEPT !.rows = SelectSeq(df.rows, InRange)]

SortValues(df, col) == [df EXCEPT !.rows = SortRows(df.rows, col)]

(***************************************************************************)
(* fetch_hkma_data after the loop: lines 104-122.                          *)
(***************************************************************************)
Normalize(records, target_start, target_end) ==
    IF records = <<>> THEN EmptyDataFrame
    ELSE LET df == DataFrame(records)
             date_col_found == FirstPresent(possible_date_cols, 1, df.columns)
         IN  IF date_col_found # NoCol
             THEN SortValues(
                      MaskRange(DropNa(Coerce(df, date_col_found), date_col_found),
                                date_col_found, target_start, target_end),
                      date_col_found)
             ELSE df

\* Mutant: the offset does not advance.
NextOffset_Same(o) == o

NextOffset(o) == o + pagesize

(***************************************************************************)
(* The fetch handler after the call: lines 140-154.                        *)
(***************************************************************************)
WithDateObj(df, col) ==
    [columns |-> df.columns \cup {"date_obj"},
     rows |-> [i \in 1..Len(df.rows) |->
                 [c \in df.columns \cup {"date_obj"} |->
                     IF c = "date_obj" THEN df.rows[i][col] ELSE df.rows[i][c]]]]

HandlerDateCol(df_new) == FirstPresent(handler_date_cols, 1, df_new.columns)

StoreResult(old, df_new) ==
    IF ~IsEmpty(df_new)
    THEN IF HandlerDateCol(df_new) # NoCol
         THEN [df |-> <<WithDateObj(df_new, HandlerDateCol(df_new))>>, msg |-> "success"]
         ELSE [df |-> old, msg |-> "error"]
    ELSE [df |-> old, msg |-> "warning"]

(***************************************************************************)
(* Main display: lines 213-219 and the slider of lines 241-248.            *)
(***************************************************************************)
DateObj(df) == [i \in 1..Len(df.rows) |-> df.rows[i]["date_obj"]]

ValidDates(df) == {DateObj(df)[i] : i \in 1..Len(df.rows)} \ {NaT, NaN, Unparseable}

min_d(df) ==
    IF ValidDates(df) = {} THEN NaT
    ELSE CHOOSE d \in ValidDates(df) : \A e \in ValidDates(df) : d <= e

max_d(df) ==
    IF ValidDates(df) = {} THEN NaT
    ELSE CHOOSE d \in ValidDates(df) : \A e \in ValidDates(df) : d >= e

InitPlotStart(df, ps) == IF ps = Absent \/ ps < min_d(df) THEN min_d(df) ELSE ps

InitPlotEnd(df, pe) == IF pe = Absent \/ pe > max_d(df) THEN max_d(df) ELSE pe

SliderWidget(sr, ps, pe) == IF sr = <<>> THEN <<ps, pe>> ELSE sr

\* The range part of one script run over session state (dfo, ps, pe, sr).
Display(dfo, ps, pe, sr) ==
    IF dfo = <<>> THEN [ps |-> ps, pe |-> pe, sr |-> sr]
    ELSE LET s == InitPlotStart(dfo[1], ps)
             e == InitPlotEnd(dfo[1], pe)
         IN  [ps |-> s, pe |-> e, sr |-> SliderWidget(sr, s, e)]

(***************************************************************************)
(* Text: a Python str as the sequence of its characters.                   *)
(***************************************************************************)
VarCodes == <<"m1", "hibor_on", "ir_1m", "day_count">>

ValueCols == {VarCodes[i] : i \in 1..(IF MaxVars < Len(VarCodes) THEN MaxVars ELSE Len(VarCodes))}

Chars(code) ==
    CASE code = "m1" -> <<"m", "1">>
      [] code = "hibor_on" -> <<"h", "i", "b", "o", "r", "_", "o", "n">>
      [] code = "ir_1m" -> <<"i", "r", "_", "1", "m">>
      [] code = "day_count" -> <<"d", "a", "y", "_", "c", "o", "u", "n", "t">>
      [] OTHER -> <<code>>

LowerChar(ch) ==
    CASE ch = "H" -> "h" [] ch = "I" -> "i" [] ch = "B" -> "b" [] ch = "O" -> "o"
      [] ch = "R" -> "r" [] ch = "M" -> "m" [] ch = "K" -> "k" [] ch = "D" -> "d"
      [] OTHER -> ch

Lower(text) == [i \in 1..Len(text) |-> LowerChar(text[i])]

\* Python's `kw in text`
Contains(text, kw) ==
    \E i \in 1..(Len(text) - Len(kw) + 1) : SubSeq(text, i, i + Len(kw) - 1) = kw

NaNText == <<"<NaN>">>

(***************************************************************************)
(* get_display_info: lines 51-55.  The dict it returns for a known         *)
(* variable is the entry of VARIABLE_META itself, so the two NaN           *)
(* replacements stay in the table.                                         *)
(***************************************************************************)
FixInfo(var_name, info) ==
    [label |-> IF info.label = NaNText THEN Chars(var_name) ELSE info.label,
     unit |-> IF info.unit = NaNText THEN <<>> ELSE info.unit]

get_display_info(meta, var_name) ==
    IF var_name \in DOMAIN meta THEN FixInfo(var_name, meta[var_name])
    ELSE [label |-> Chars(var_name), unit |-> <<>>]

MetaAfterLookups(meta, looked_up) ==
    [v \in DOMAIN meta |-> IF v \in looked_up THEN FixInfo(v, meta[v]) ELSE meta[v]]

(***************************************************************************)
(* Column filter of the chart: lines 204-210.                              *)
(***************************************************************************)
exclude_keywords == {<<"i", "d">>, <<"y", "e", "a", "r">>, <<"m", "o", "n", "t", "h">>,
                     <<"d", "a", "y">>, <<"r", "e", "c", "_", "c", "o", "u", "n", "t">>}

\* The API sends the value fields as numbers and the date fields as strings.
IsNumericCol(c) == c \in ValueCols

Excluded(c) == \E k \in exclude_keywords : Contains(Lower(Chars(c)), k)

ColumnOrder == VarCodes \o possible_date_cols \o <<"date_obj">>

plot_options(df) ==
    LET Wanted(c) == c \in df.columns /\ IsNumericCol(c) /\ ~Excluded(c)
        Fallback(c) == c \in df.columns /\ c \notin {"date_obj", "end_of_day", "end_of_month"}
    IN  IF SelectSeq(ColumnOrder, Wanted) # <<>> THEN SelectSeq(ColumnOrder, Wanted)
        ELSE SelectSeq(ColumnOrder, Fallback)

DefaultSelection(options) == IF Len(options) >= 2 THEN SubSeq(options, 1, 2) ELSE options

(***************************************************************************)
(* Axis classification: lines 262-290.                                     *)
(***************************************************************************)
is_rate(info) ==
    \/ Contains(Lower(info.unit), <<"nian", "lv">>)
    \/ Contains(Lower(info.unit), <<"%">>)
    \/ Contains(Lower(info.label), <<"li", "lv">>)
    \/ Contains(Lower(info.label), <<"shou", "yi", "lv">>)
    \/ Contains(Lower(info.label), <<"hui", "lv">>)
    \/ Contains(Lower(info.label), <<"h", "i", "b", "o", "r">>)
    \/ Contains(Lower(info.label), <<"zhi", "shu">>)

\* Mutant: no fallback to a single axis.
SingleAxis_None(primary, secondary) == [primary |-> primary, secondary |-> secondary]

SingleAxis(primary, secondary) ==
    IF primary = <<>> /\ secondary # <<>>
    THEN [primary |-> secondary, secondary |-> <<>>]
    ELSE [primary |-> primary, secondary |-> secondary]

Classify(meta, selected) ==
    LET Rate(col) == is_rate(get_display_info(meta, col))
        Magnitude(col) == ~is_rate(get_display_info(meta, col))
    IN  SingleAxis(SelectSeq(selected, Magnitude), SelectSeq(selected, Rate))

\* plot_df of lines 252-254 has a row
HasRowsIn(df, ps, pe) ==
    \E i \in 1..Len(df.rows) : DateObj(df)[i] >= ps /\ DateObj(df)[i] <= pe

\* The chart part of one script run.  sel is <<>> before the multiselect
\* was first shown and <<selection>> afterwards.
Chart(dfo, ps, pe, meta, sel) ==
    IF dfo = <<>>
    THEN [meta |-> meta, sel |-> sel, primary |-> <<>>, secondary |-> <<>>]
    ELSE LET options == plot_options(dfo[1])
             shown == {options[i] : i \in 1..Len(options)}
             chosen == IF sel = <<>> THEN DefaultSelection(options) ELSE sel[1]
             meta2 == MetaAfterLookups(meta, shown)
             axes == IF chosen # <<>> /\ HasRowsIn(dfo[1], ps, pe)
                     THEN Classify(meta2, chosen)
                     ELSE [primary |-> <<>>, secondary |-> <<>>]
         IN  [meta |-> meta2, sel |-> <<chosen>>,
              primary |-> axes.primary, secondary |-> axes.secondary]

(***************************************************************************)
(* Initial state: a new session, lines 57-61.                              *)
(***************************************************************************)
NoMeta == [v \in {} |-> {}]

Init ==
    /\ df_all = <<>>
    /\ current_source = ""
    /\ plot_start = Absent
    /\ plot_end = Absent
    /\ slider_range = <<>>
    /\ selected_source_name = "HIBOR"
    /\ fetch_start = 0
    /\ fetch_end = MaxDate
    /\ pc = "idle"
    /\ offset = 0
    /\ all_records = <<>>
    /\ requests = <<>>
    /\ kept = <<>>
    /\ stop = ""
    /\ message = ""
    /\ VARIABLE_META = NoMeta
    /\ selected_vars = <<>>
    /\ primary_vars = <<>>
    /\ secondary_vars = <<>>

(***************************************************************************)
(* The fetch button: lines 125-138 up to the first request.                *)
(***************************************************************************)
FetchClick(source, start, end) ==
    /\ pc = "idle"
    /\ selected_source_name' = source
    /\ fetch_start' = start
    /\ fetch_end' = end
    /\ IF current_source # source
       THEN /\ df_all' = <<>>
            /\ current_source' = source
            /\ plot_start' = Absent
            /\ plot_end' = Absent
       ELSE UNCHANGED <<df_all, current_source, plot_start, plot_end>>
    /\ pc' = "paging"
    /\ offset' = 0
    /\ all_records' = <<>>
    /\ requests' = <<>>
    /\ kept' = df_all
    /\ stop' = ""
    /\ message' = ""
    /\ UNCHANGED <<slider_range>>
    /\ UNCHANGED chartVars

\* The rest of the script run once the loop has ended for `reason`.
FinishFetch(reason) ==
    \E res \in {StoreResult(df_all, Normalize(all_records, fetch_start, fetch_end))} :
    \E d \in {Display(res.df, plot_start, plot_end, slider_range)} :
    \E c \in {Chart(res.df, d.ps, d.pe, VARIABLE_META, selected_vars)} :
        /\ pc' = "idle"
        /\ stop' = reason
        /\ df_all' = res.df
        /\ message' = res.msg
        /\ kept' = IF res.msg = "success" THEN res.df ELSE kept
        /\ plot_start' = d.ps
        /\ plot_end' = d.pe
        /\ slider_range' = d.sr
        /\ VARIABLE_META' = c.meta
        /\ selected_vars' = c.sel
        /\ primary_vars' = c.primary
        /\ secondary_vars' = c.secondary
        /\ UNCHANGED <<current_source, selected_source_name, fetch_start, fetch_end,
                       offset, all_records>>

\* One iteration that receives a non-empty page: lines 89-99.
ApiPage(page) ==
    /\ pc = "paging"
    /\ page # <<>>
    /\ Len(requests) < MaxPages
    /\ Len(all_records) + Len(page) <= MaxRecords
    /\ \A i \in 1..Len(page) : DOMAIN page[i] = DOMAIN page[1]
    /\ all_records # <<>> => DOMAIN page[1] = DOMAIN all_records[1]
    /\ requests' = Append(requests, [offset |-> offset, got |-> Len(page)])
    /\ all_records' = all_records \o page
    /\ offset' = NextOffset(offset)
    /\ UNCHANGED <<selected_source_name, fetch_start, fetch_end, pc, kept, stop, message>>
    /\ UNCHANGED sessionVars
    /\ UNCHANGED chartVars

\* The iteration that receives zero records: line 97, then lines 104-248.
ApiEmpty ==
    /\ pc = "paging"
    /\ requests' = Append(requests, [offset |-> offset, got |-> 0])
    /\ FinishFetch("empty")

\* The iteration whose request raises: lines 100-102, then lines 104-248.
ApiFail ==
    /\ pc = "paging"
    /\ requests' = Append(requests, [offset |-> offset, got |-> RequestFailed])
    /\ FinishFetch("error")

(***************************************************************************)
(* Range controls: lines 222-248.  The widget writes its key, the          *)
(* on_change callback runs, then the script runs again.                    *)
(***************************************************************************)
update_slider(ps, pe) == <<ps, pe>>

update_inputs(sr) == [ps |-> sr[1], pe |-> sr[2]]

RangeWidgetsShown == pc = "idle" /\ df_all # <<>>

\* st.date_input(key="plot_start", min_value=min_d, max_value=max_d, on_change=update_slider)
DateInputStart(v) ==
    /\ RangeWidgetsShown
    /\ v >= min_d(df_all[1]) /\ v <= max_d(df_all[1])
    /\ v # plot_start
    /\ \E d \in {Display(df_all, v, plot_end, update_slider(v, plot_end))} :
       \E c \in {Chart(df_all, d.ps, d.pe, VARIABLE_META, selected_vars)} :
           /\ plot_start' = d.ps
           /\ plot_end' = d.pe
           /\ slider_range' = d.sr
           /\ VARIABLE_META' = c.meta
           /\ selected_vars' = c.sel
           /\ primary_vars' = c.primary
           /\ secondary_vars' = c.secondary
    /\ UNCHANGED <<df_all, current_source>>
    /\ UNCHANGED fetchVars

\* st.date_input(key="plot_end", min_value=min_d, max_value=max_d, on_change=update_slider)
DateInputEnd(v) ==
    /\ RangeWidgetsShown
    /\ v >= min_d(df_all[1]) /\ v <= max_d(df_all[1])
    /\ v # plot_end
    /\ \E d \in {Display(df_all, plot_start, v, update_slider(plot_start, v))} :
       \E c \in {Chart(df_all, d.ps, d.pe, VARIABLE_META, selected_vars)} :
           /\ plot_start' = d.ps
           /\ plot_end' = d.pe
           /\ slider_range' = d.sr
           /\ VARIABLE_META' = c.meta
           /\ selected_vars' = c.sel
           /\ primary_vars' = c.primary
           /\ secondary_vars' = c.secondary
    /\ UNCHANGED <<df_all, current_source>>
    /\ UNCHANGED fetchVars

\* st.slider(min_value=min_d, max_value=max_d, key="slider_range", on_change=update_inputs)
SliderChange(a, b) ==
    /\ RangeWidgetsShown
    /\ min_d(df_all[1]) <= a /\ a <= b /\ b <= max_d(df_all[1])
    /\ <<a, b>> # slider_range
    /\ \E d \in {Display(df_all, update_inputs(<<a, b>>).ps, update_inputs(<<a, b>>).pe,
                        <<a, b>>)} :
       \E c \in {Chart(df_all, d.ps, d.pe, VARIABLE_META, selected_vars)} :
           /\ plot_start' = d.ps
           /\ plot_end' = d.pe
           /\ slider_range' = d.sr
           /\ VARIABLE_META' = c.meta
           /\ selected_vars' = c.sel
           /\ primary_vars' = c.primary
           /\ secondary_vars' = c.secondary
    /\ UNCHANGED <<df_all, current_source>>
    /\ UNCHANGED fetchVars

\* st.multiselect of lines 230-235: the user changes the selection.
SelectVariables(sel) ==
    /\ RangeWidgetsShown
    /\ selected_vars # <<>>
    /\ sel # selected_vars[1]
    /\ \E options \in {plot_options(df_all[1])} :
           \A i \in 1..Len(sel) : \E j \in 1..Len(options) : sel[i] = options[j]
    /\ \A i \in 1..Len(sel) : \A j \in 1..Len(sel) : sel[i] = sel[j] => i = j
    /\ \E d \in {Display(df_all, plot_start, plot_end, slider_range)} :
       \E c \in {Chart(df_all, d.ps, d.pe, VARIABLE_META, <<sel>>)} :
           /\ plot_start' = d.ps
           /\ plot_end' = d.pe
           /\ slider_range' = d.sr
           /\ VARIABLE_META' = c.meta
           /\ selected_vars' = c.sel
           /\ primary_vars' = c.primary
           /\ secondary_vars' = c.secondary
    /\ UNCHANGED <<df_all, current_source>>
    /\ UNCHANGED fetchVars

(***************************************************************************)
(* What the API may answer, and what the user may ask for.                 *)
(***************************************************************************)
Sources == DOMAIN API_CONFIG

FetchRanges == {<<0, MaxDate>>, <<1, MaxDate - 1>>, <<1, 0>>}

\* The sources and ranges asked for in the session-long specification.
SessionSources == {"HIBOR", "RMB Deposit Rates"}

SessionRanges == {<<0, MaxDate>>}

MkRecord(schema, v) ==
    [c \in schema \cup ValueCols |-> IF c \in ValueCols THEN 0 ELSE v]

ValueSeqs == UNION {[1..k -> RawValues] : k \in 1..MaxRecords}

PagesOf(schemas) ==
    {[i \in 1..Len(vs) |-> MkRecord(schema, vs[i])] : schema \in schemas, vs \in ValueSeqs}

\* Any mix of the candidate date fields, or none of them.
Schemas == {{}, {"end_of_day"}, {"end_of_month"}, {"date"}, {"observation_date"},
            {"date", "observation_date"}}

\* The schema a source is configured for, or records without a date field.
SourceSchemas(source) == {{}, {API_CONFIG[source].date_col}}

(***************************************************************************)
(* Spec: the whole session.                                                *)
(***************************************************************************)
Fetch == \E source \in SessionSources, r \in SessionRanges : FetchClick(source, r[1], r[2])

Page == \E page \in PagesOf(SourceSchemas(selected_source_name)) : ApiPage(page)

EditStart == \E v \in Dates : DateInputStart(v)

EditEnd == \E v \in Dates : DateInputEnd(v)

Drag == \E a \in Dates, b \in Dates : SliderChange(a, b)

Next == Fetch \/ Page \/ ApiEmpty \/ ApiFail \/ EditStart \/ EditEnd \/ Drag

Spec == Init /\ [][Next]_vars

(***************************************************************************)
(* SpecFetch: fetches made while no Dataset is loaded, over every schema.  *)
(***************************************************************************)
FirstFetch ==
    /\ df_all = <<>>
    /\ \E source \in Sources, r \in FetchRanges : FetchClick(source, r[1], r[2])

AnyPage == \E page \in PagesOf(Schemas) : ApiPage(page)

FetchNext == FirstFetch \/ AnyPage \/ ApiEmpty \/ ApiFail

SpecFetch == Init /\ [][FetchNext]_vars

(***************************************************************************)
(* SpecClassify: the axis classification over metadata tables and          *)
(* selections, on one loaded Dataset.                                      *)
(***************************************************************************)
\* Rows of variable_config.csv: a magnitude, a rate by its label, a rate by its
\* unit, a rate by CJK label and unit, and a row with both cells empty.
MetaEntries ==
    {[label |-> <<"M", "1">>, unit |-> <<"H", "K", "D">>],
     [label |-> <<"H", "I", "B", "O", "R">>, unit |-> NaNText],
     [label |-> NaNText, unit |-> <<"%">>],
     [label |-> <<"li", "lv">>, unit |-> <<"nian", "lv">>],
     [label |-> NaNText, unit |-> NaNText]}

MetaTables == UNION {[known -> MetaEntries] : known \in SUBSET ValueCols}

DistinctSeqs(S) ==
    {sel \in UNION {[1..k -> S] : k \in 0..Cardinality(S)} :
        \A i \in 1..Len(sel) : \A j \in 1..Len(sel) : sel[i] = sel[j] => i = j}

InitClassify ==
    /\ VARIABLE_META \in MetaTables
    /\ df_all = <<>>
    /\ current_source = ""
    /\ plot_start = Absent
    /\ plot_end = Absent
    /\ slider_range = <<>>
    /\ selected_source_name = "HIBOR"
    /\ fetch_start = 0
    /\ fetch_end = MaxDate
    /\ pc = "idle"
    /\ offset = 0
    /\ all_records = <<>>
    /\ requests = <<>>
    /\ kept = <<>>
    /\ stop = ""
    /\ message = ""
    /\ selected_vars = <<>>
    /\ primary_vars = <<>>
    /\ secondary_vars = <<>>

LoadClick == df_all = <<>> /\ FetchClick("HIBOR", 0, MaxDate)

LoadPage == all_records = <<>> /\ ApiPage(<<MkRecord({"end_of_day"}, 0)>>)

Select == \E sel \in DistinctSeqs(ValueCols) : SelectVariables(sel)

ClassifyNext == LoadClick \/ LoadPage \/ ApiEmpty \/ Select

SpecClassify == InitClassify /\ [][ClassifyNext]_vars

(***************************************************************************)
(* Properties.                                                             *)
(***************************************************************************)
FetchEnded == pc = "idle" /\ stop # ""

FetchedColumns == DataFrame(all_records).columns

Replacement == pc = "paging" /\ pc' = "idle" /\ message' = "success"

ChartDrawn ==
    /\ pc = "idle"
    /\ df_all # <<>>
    /\ selected_vars # <<>>
    /\ selected_vars[1] # <<>>
    /\ HasRowsIn(df_all[1], plot_start, plot_end)

SeqSet(q) == {q[i] : i \in 1..Len(q)}

\* C1: every Dataset a fetch for [fetch_start, fetch_end] stores in the session has
\* no null or unparsed date, only dates within the range (both ends included), and
\* rows in non-decreasing order of date.
C1_DatasetInvariant ==
    df_all # <<>> =>
        LET dates == DateObj(df_all[1])
        IN  /\ \A i \in 1..Len(dates) : dates[i] \notin {NaT, NaN, Unparseable}
            /\ \A i \in 1..Len(dates) : fetch_start <= dates[i] /\ dates[i] <= fetch_end
            /\ \A i \in 1..Len(dates) : \A j \in 1..Len(dates) :
                   i <= j => dates[i] <= dates[j]

\* A fetch of two records stored one row: the other had a date outside the range.
C1_Witness ==
    /\ FetchEnded
    /\ message = "success"
    /\ Len(all_records) = 2
    /\ Len(df_all[1].rows) = 1
    /\ \E i \in 1..2 :
           LET v == all_records[i][HandlerDateCol(df_all[1])]
           IN  v >= 0 /\ (v < fetch_start \/ v > fetch_end)

\* C2: within one fetch the requested offsets are 0, 1000, 2000, ... in this order,
\* and the page with zero records is the last request: the loop has ended with it.
C2_Paging ==
    /\ \A i \in 1..Len(requests) : requests[i].offset = (i - 1) * pagesize
    /\ \A i \in 1..Len(requests) :
           requests[i].got = 0 => i = Len(requests) /\ pc = "idle"

\* Two pages with records, then the empty page that ends the fetch.
C2_Witness ==
    /\ FetchEnded
    /\ stop = "empty"
    /\ Len(requests) = 3
    /\ requests[3].got = 0

\* C3: a failed request is the last request of its fetch (no retry), and the handler
\* never presents the result of a fetch that failed as a successful, complete one.
C3_FailureSurfaced ==
    /\ \A i \in 1..Len(requests) :
           requests[i].got = RequestFailed => i = Len(requests) /\ pc = "idle"
    /\ (FetchEnded /\ stop = "error") => message # "success"

\* C4: after a fetch attempt that did not install a Dataset, the session Dataset is
\* the one that was loaded when the attempt started.
C4_DatasetKept == pc = "idle" => df_all = kept

\* C5: while a Dataset is loaded, min_d <= plot_start <= plot_end <= max_d.
C5_RangeState ==
    (pc = "idle" /\ df_all # <<>>) =>
        /\ plot_start <= plot_end
        /\ min_d(df_all[1]) <= plot_start
        /\ plot_end <= max_d(df_all[1])

\* C6: an edit of a date input that would make plot_start > plot_end changes neither
\* plot_start, plot_end nor slider_range.
C6_InvalidBoundRejected ==
    [][((EditStart \/ EditEnd) /\ plot_start' > plot_end') =>
           /\ plot_start' = plot_start
           /\ plot_end' = plot_end
           /\ slider_range' = slider_range]_vars

\* C7: when a fetch installs a Dataset, both bounds end within [min_d, max_d] of it,
\* and bounds that lay entirely before or after its span become (min_d, max_d).
C7_ReplacementClamps ==
    [][Replacement =>
           LET lo == min_d(df_all'[1])
               hi == max_d(df_all'[1])
           IN  /\ lo <= plot_start' /\ plot_start' <= hi
               /\ lo <= plot_end' /\ plot_end' <= hi
               /\ (plot_start # Absent /\ plot_end # Absent
                       /\ (plot_end < lo \/ plot_start > hi))
                  => (plot_start' = lo /\ plot_end' = hi)]_vars

\* C8: a slider change to (a, b) sets plot_start = a and plot_end = b, and after a
\* slider change, an accepted date input edit or a Dataset replacement the slider
\* value is (plot_start, plot_end).
C8_InSync ==
    [][/\ \A a \in Dates, b \in Dates :
              SliderChange(a, b) => plot_start' = a /\ plot_end' = b
       /\ (Drag \/ ((EditStart \/ EditEnd) /\ plot_start' <= plot_end') \/ Replacement)
              => slider_range' = <<plot_start', plot_end'>>]_vars

\* C9: when a chart is drawn, primary_vars and secondary_vars share no variable,
\* together hold exactly the selected variables, primary_vars is not empty, and if
\* every selected variable is rate-like then primary_vars is the whole selection.
C9_AxisPartition ==
    ChartDrawn =>
        LET sel == selected_vars[1]
            Rate(v) == is_rate(get_display_info(VARIABLE_META, v))
        IN  /\ SeqSet(primary_vars) \cap SeqSet(secondary_vars) = {}
            /\ SeqSet(primary_vars) \cup SeqSet(secondary_vars) = SeqSet(sel)
            /\ Len(primary_vars) + Len(secondary_vars) = Len(sel)
            /\ primary_vars # <<>>
            /\ (\A v \in SeqSet(sel) : Rate(v)) =>
                   (primary_vars = sel /\ secondary_vars = <<>>)

\* Two selected variables, both rate-like, one of them by its unit "%".
C9_Witness ==
    /\ ChartDrawn
    /\ Len(selected_vars[1]) = 2
    /\ \A v \in SeqSet(selected_vars[1]) : is_rate(get_display_info(VARIABLE_META, v))
    /\ \E v \in SeqSet(selected_vars[1]) :
           v \in DOMAIN VARIABLE_META /\ VARIABLE_META[v].unit = <<"%">>
    /\ primary_vars = selected_vars[1]
    /\ secondary_vars = <<>>

\* C10: for a fetch that received records, the handler shows the "no date field"
\* error, and installs nothing, exactly when the records have none of the four
\* candidate date fields; a Dataset it installs has as date the first candidate
\* present, in priority order.
C10_NoDateField ==
    (FetchEnded /\ all_records # <<>>) =>
        LET present == FirstPresent(possible_date_cols, 1, FetchedColumns)
        IN  /\ message = "error" <=> present = NoCol
            /\ message = "error" => df_all = kept
            /\ message = "success" =>
                   \A i \in 1..Len(df_all[1].rows) :
                       df_all[1].rows[i]["date_obj"] = df_all[1].rows[i][present]

====
